---------------------------- MODULE Spec2Model ----------------------------
(***************************************************************************)
(* The two tools of src/main.py, post_note_article and save_note_draft.    *)
(* Each invocation builds its own httpx.Client and issues sign-in, create  *)
(* and mutate requests one after the other.  The handlers contain no       *)
(* await, so an invocation is never interleaved with another one; the      *)
(* only points where the remote platform acts are the three responses.     *)
(* An action is the handler's code from one response to the next request.  *)
(*                                                                         *)
(* Python values: None and a missing dict key, cookie or header are the    *)
(* two reserved strings None and Absent; numbers that are only passed on   *)
(* (the note id) are strings; the text that is measured (body) is a        *)
(* sequence of one-character strings.                                      *)
(***************************************************************************)
EXTENDS Integers, Sequences, FiniteSets, TLC

VARIABLES op, title, body, hashtags, email, password, pc, cookies,
          xsrf_headers, note_id, note_key, log, resps, outcome, invocation

vars == <<op, title, body, hashtags, email, password, pc, cookies,
          xsrf_headers, note_id, note_key, log, resps, outcome, invocation>>

\* Bounds of the model.
MaxInvocations == 2
MaxBodyLen == 4

---------------------------------------------------------------------------
(* Text: re.sub(r"<[^>]*>", "", body) and html.unescape                    *)

Alphabet == {"<", ">", "&", ";", "l", "t", "#", "1"}

HelloBody ==
    <<"<", "p", ">", "H", "e", "l", "l", "o", "&", "n", "b", "s", "p", ";",
      "W", "o", "r", "l", "d", "<", "/", "p", ">">>

FjligBody == <<"<", "p", ">", "&", "f", "j", "l", "i", "g", ";", "<", "/", "p", ">">>

EscapedTagBody == <<"&", "l", "t", ";", "b", "&", "g", "t", ";", "x">>

SampleBodies == {<<>>, HelloBody, FjligBody}

AllBodies ==
    UNION {[1..n -> Alphabet] : n \in 0..MaxBodyLen} \cup SampleBodies
        \cup {EscapedTagBody}

Min(a, b) == IF a < b THEN a ELSE b

\* The index of the first c in s at or after i, 0 when there is none.
RECURSIVE Find(_, _, _)
Find(s, c, i) ==
    IF i > Len(s) THEN 0
    ELSE IF s[i] = c THEN i
    ELSE Find(s, c, i + 1)

\* re.sub(r"<[^>]*>", "", s): a "<" opens a match only when a ">" follows
\* it, and the match ends at the first such ">".
RECURSIVE ReSubFrom(_, _)
ReSubFrom(s, i) ==
    IF i > Len(s) THEN <<>>
    ELSE IF s[i] = "<" /\ Find(s, ">", i + 1) # 0
         THEN ReSubFrom(s, Find(s, ">", i + 1) + 1)
         ELSE <<s[i]>> \o ReSubFrom(s, i + 1)

ReSubTags(s) == ReSubFrom(s, 1)

Digits == {"0", "1", "2", "3", "4", "5", "6", "7", "8", "9"}

DigitValue(c) ==
    CASE c = "0" -> 0 [] c = "1" -> 1 [] c = "2" -> 2 [] c = "3" -> 3
      [] c = "4" -> 4 [] c = "5" -> 5 [] c = "6" -> 6 [] c = "7" -> 7
      [] c = "8" -> 8 [] c = "9" -> 9

\* The characters [^\t\n\f <&#;] of a named reference.
NameChar(c) == c \notin {"\t", "\n", "\f", " ", "<", "&", "#", ";"}

MaxNameLen == 32

\* The number of consecutive characters of s from i on that are digits.
RECURSIVE DigitRun(_, _)
DigitRun(s, i) ==
    IF i <= Len(s) /\ s[i] \in Digits THEN 1 + DigitRun(s, i + 1) ELSE 0

RECURSIVE NameRun(_, _)
NameRun(s, i) ==
    IF i <= Len(s) /\ NameChar(s[i]) THEN 1 + NameRun(s, i + 1) ELSE 0

\* The length of the group _charref matches after the "&" at i, 0 when the
\* pattern does not match there.  The hexadecimal alternative is left out:
\* no body of the model holds "x" or "X" after "&#".
CharrefLen(s, i) ==
    LET semi(j) == IF j <= Len(s) /\ s[j] = ";" THEN 1 ELSE 0
        d == DigitRun(s, i + 2)
        n == Min(NameRun(s, i + 1), MaxNameLen)
    IN  IF i + 1 <= Len(s) /\ s[i + 1] = "#"
        THEN IF d > 0 THEN 1 + d + semi(i + 2 + d) ELSE 0
        ELSE IF n > 0 THEN n + semi(i + 1 + n) ELSE 0

RECURSIVE ParseInt(_)
ParseInt(ds) ==
    IF ds = <<>> THEN 0
    ELSE 10 * ParseInt(SubSeq(ds, 1, Len(ds) - 1)) + DigitValue(ds[Len(ds)])

RStripSemi(s) ==
    IF s # <<>> /\ s[Len(s)] = ";" THEN SubSeq(s, 1, Len(s) - 1) ELSE s

\* html._invalid_charrefs: 0x00, 0x0d and 0x80..0x9f each map to one
\* character.
InvalidCharref(num) == num = 0 \/ num = 13 \/ (128 <= num /\ num <= 159)

\* html._invalid_codepoints
InvalidCodepoint(num) ==
    \/ 1 <= num /\ num <= 8
    \/ 14 <= num /\ num <= 31
    \/ 127 <= num /\ num <= 159
    \/ 64976 <= num /\ num <= 65007
    \/ num = 11
    \/ num <= 1114111 /\ (num % 65536) \in {65534, 65535}

Chr(num) == <<"chr(" \o ToString(num) \o ")">>

\* html.entities.html5 restricted to the names the bodies of the model can
\* spell; the value is the sequence of characters the name expands to.
Html5Names ==
    {<<"l", "t", ";">>, <<"l", "t">>, <<"g", "t", ";">>, <<"g", "t">>,
     <<"l", "l", ";">>, <<"n", "b", "s", "p", ";">>, <<"n", "b", "s", "p">>,
     <<"f", "j", "l", "i", "g", ";">>}

Html5(name) ==
    CASE name \in {<<"l", "t", ";">>, <<"l", "t">>} -> <<"<">>
      [] name \in {<<"g", "t", ";">>, <<"g", "t">>} -> <<">">>
      [] name = <<"l", "l", ";">> -> <<"U+226A">>
      [] name \in {<<"n", "b", "s", "p", ";">>, <<"n", "b", "s", "p">>} -> <<"U+00A0">>
      [] name = <<"f", "j", "l", "i", "g", ";">> -> <<"f", "j">>

\* for x in range(len(s)-1, 1, -1): if s[:x] in html5: ...
RECURSIVE LongestPrefix(_, _)
LongestPrefix(s, x) ==
    IF x <= 1 THEN 0
    ELSE IF SubSeq(s, 1, x) \in Html5Names THEN x
    ELSE LongestPrefix(s, x - 1)

\* html._replace_charref on the matched group s (without its "&")
ReplaceCharref(s) ==
    IF s[1] = "#"
    THEN LET num == ParseInt(RStripSemi(SubSeq(s, 2, Len(s))))
         IN  IF InvalidCharref(num) THEN <<"U+FFFD">>
             ELSE IF (55296 <= num /\ num <= 57343) \/ num > 1114111
                  THEN <<"U+FFFD">>
             ELSE IF InvalidCodepoint(num) THEN <<>>
             ELSE Chr(num)
    ELSE IF s \in Html5Names THEN Html5(s)
    ELSE LET x == LongestPrefix(s, Len(s) - 1)
         IN  IF x # 0 THEN Html5(SubSeq(s, 1, x)) \o SubSeq(s, x + 1, Len(s))
             ELSE <<"&">> \o s

RECURSIVE CharrefSub(_, _)
CharrefSub(s, i) ==
    IF i > Len(s) THEN <<>>
    ELSE IF s[i] = "&" /\ CharrefLen(s, i) > 0
         THEN ReplaceCharref(SubSeq(s, i + 1, i + CharrefLen(s, i)))
                  \o CharrefSub(s, i + 1 + CharrefLen(s, i))
         ELSE <<s[i]>> \o CharrefSub(s, i + 1)

\* html.unescape
Unescape(s) == IF Find(s, "&", 1) = 0 THEN s ELSE CharrefSub(s, 1)


---------------------------------------------------------------------------
(* Python and httpx helpers                                                *)

None == "<None>"
Absent == "<absent>"
EmptyDict == [k \in {} |-> k]

\* The names of the two cookies and of the anti-forgery header.
SessionName == "_note_session_v5"
XsrfName == "XSRF-TOKEN"
XsrfHeader == "X-XSRF-TOKEN"

\* bool(v) of a str or None: the test of "if not email", "if not
\* session_cookie", "if xsrf_cookie" and of the left operand of "or".
Truthy(v) == v # None /\ v # ""

\* str(v) inside an f-string
PyStr(v) == IF v = None THEN "None" ELSE v

\* dict.get(key, default), httpx.Cookies.get(name) and Headers.get
DictGet(d, k, default) == IF k \in DOMAIN d THEN d[k] ELSE default

\* str.startswith on texts held as sequences of tokens
StartsWith(s, prefix) ==
    Len(s) >= Len(prefix) /\ SubSeq(s, 1, Len(prefix)) = prefix

ApplicationJson == <<"application/", "json">>

\* httpx.Response.is_success, the test of raise_for_status
IsSuccess(status) == 200 <= status /\ status <= 299

\* Mutants of RaiseForStatus: only 4xx and 5xx raise; only 5xx raises.
RaiseForStatus_ErrorsOnly(resp) == resp.status >= 400

RaiseForStatus_ServerOnly(resp) == resp.status >= 500

\* resp.raise_for_status() raises httpx.HTTPStatusError
RaiseForStatus(resp) == ~IsSuccess(resp.status)

Running == [kind |-> "running", exc |-> Absent, value |-> Absent]
Raise(exc, msg) == [kind |-> "raise", exc |-> exc, value |-> msg]
Return(v) == [kind |-> "return", exc |-> Absent, value |-> v]

ExampleUrl ==
    "https://note-com.fastmcp.app/mcp?email=foo@gmail.com&password=YOUR_PASSWORD"

MissingParameter(name) ==
    Raise("ValueError", <<"Missing '", name, "' query parameter. ", ExampleUrl>>)

\* The message is the source's, put into ASCII: "_note_session_v5 is not
\* found after a successful login".
NoSessionCookie ==
    Raise("RuntimeError", "_note_session_v5 not found after login")

HTTPStatusError(resp) == Raise("HTTPStatusError", resp.status)

\* The headers every request of the client carries.
headers ==
    ("User-Agent" :> "Mozilla/5.0 (Windows NT 10.0; Win64; x64) AppleWebKit(KHTML, like Gecko) Chrome/96.0.4664.110 Safari/537.36")
    @@ ("Accept" :> "*/*")
    @@ ("Origin" :> "https://editor.note.com")
    @@ ("Referer" :> "https://editor.note.com/")

\* {"X-XSRF-TOKEN": xsrf_cookie} if xsrf_cookie else {}
XsrfHeaders(xsrf_cookie) ==
    IF Truthy(xsrf_cookie) THEN (XsrfHeader :> xsrf_cookie) ELSE EmptyDict

\* Mutant of MissingSession: the check is left out.
MissingSession_Never(session_cookie) == FALSE

\* if not session_cookie: raise RuntimeError(...)
MissingSession(session_cookie) == ~Truthy(session_cookie)

\* Mutant of RequestHeaders: xsrf_headers is not merged in.
RequestHeaders_NoXsrf(xh) == ("Content-Type" :> "application/json") @@ headers

\* headers={**xsrf_headers, "Content-Type": "application/json"} on top of
\* the client's own headers
RequestHeaders(xh) == ("Content-Type" :> "application/json") @@ xh @@ headers

Request(kind, method, url, hdrs, params, json) ==
    [kind |-> kind, method |-> method, url |-> url, headers |-> hdrs,
     params |-> params, json |-> json]

SignInRequest(e, p) ==
    Request("sign_in", "POST", <<"https://note.com/api/v1/sessions/sign_in">>,
            headers, EmptyDict, [login |-> e, password |-> p])

CreateRequest(xh) ==
    Request("create", "POST", <<"https://note.com/api/v1/text_notes">>,
            RequestHeaders(xh), EmptyDict, [template_key |-> None])


\* len(body), the length the publish payload reports
RawLength(b) == Len(b)

\* hashtags or []
HashtagsOrEmpty(h) == IF h.is_none \/ h.items = <<>> THEN <<>> ELSE h.items

\* put_body
PutBody(t, b, h, key) ==
    [author_ids |-> <<>>, body_length |-> RawLength(b), disable_comment |-> FALSE,
     exclude_from_creator_top |-> FALSE, exclude_ai_learning_reward |-> FALSE,
     free_body |-> b, hashtags |-> HashtagsOrEmpty(h), image_keys |-> <<>>,
     index |-> FALSE, is_refund |-> FALSE, limited |-> FALSE,
     magazine_ids |-> <<>>, magazine_keys |-> <<>>, name |-> t, pay_body |-> "",
     price |-> 0, send_notifications_flag |-> TRUE, separator |-> None,
     slug |-> <<"slug-", PyStr(key)>>, status |-> "published",
     circle_permissions |-> <<>>, discount_campaigns |-> <<>>,
     lead_form |-> [is_active |-> FALSE, consent_url |-> ""],
     line_add_friend |-> [is_active |-> FALSE, keyword |-> "", add_friend_url |-> ""],
     line_add_friend_access_token |-> ""]

PutRequest(xh, id, key, t, b, h) ==
    Request("publish", "PUT", <<"https://note.com/api/v1/text_notes/", PyStr(id)>>,
            RequestHeaders(xh), EmptyDict, PutBody(t, b, h, key))

\* body or ""
BodyOrEmpty(b) == IF b = <<>> THEN <<>> ELSE b

\* Mutant of TextOnly: the references are decoded before the tags are
\* removed.
TextOnly_DecodeFirst(b) == ReSubTags(Unescape(BodyOrEmpty(b)))

\* text_only = unescape(re.sub(r"<[^>]*>", "", body or ""))
TextOnly(b) == Unescape(ReSubTags(BodyOrEmpty(b)))

\* draft_payload
DraftPayload(t, b) ==
    [body |-> b, body_length |-> Len(TextOnly(b)), index |-> FALSE,
     is_lead_form |-> FALSE, name |-> t]

DraftSaveRequest(xh, id, t, b) ==
    Request("draft_save", "POST", <<"https://note.com/api/v1/text_notes/draft_save">>,
            RequestHeaders(xh), ("id" :> id) @@ ("is_temp_saved" :> "true"),
            DraftPayload(t, b))

---------------------------------------------------------------------------
(* The remote platform's responses                                         *)

\* A response body.  parses: json() succeeds; top: the JSON value's type;
\* data: the type of its "data" member; id, key, note_url: the members of
\* an object-typed "data".
JsonBody(parses, top, data, id, key, note_url) ==
    [parses |-> parses, top |-> top, data |-> data, id |-> id, key |-> key,
     note_url |-> note_url]

NotJson == JsonBody(FALSE, Absent, Absent, Absent, Absent, Absent)

Response(status, jar, hdrs, json) ==
    [status |-> status, cookies |-> jar, headers |-> hdrs, json |-> json]

Statuses == {200, 302, 422, 500}

CookieJar(session, xsrf) ==
    (IF session = Absent THEN EmptyDict ELSE (SessionName :> session))
    @@ (IF xsrf = Absent THEN EmptyDict ELSE (XsrfName :> xsrf))

SignInResponses ==
    {Response(st, CookieJar(s, x), EmptyDict, NotJson) :
        st \in Statuses, s \in {Absent, "", "s3ss10n"}, x \in {Absent, "", "x5rf"}}

CreateBodies ==
    {NotJson,
     JsonBody(TRUE, "array", Absent, Absent, Absent, Absent),
     JsonBody(TRUE, "object", Absent, Absent, Absent, Absent),
     JsonBody(TRUE, "object", "null", Absent, Absent, Absent),
     JsonBody(TRUE, "object", "string", Absent, Absent, Absent)}
    \cup {JsonBody(TRUE, "object", "object", i, k, Absent) :
            i \in {Absent, None, "12345"}, k \in {Absent, None, "abcd1234"}}

CreateResponses ==
    {Response(st, EmptyDict, EmptyDict, b) : st \in Statuses, b \in CreateBodies}

NoteUrl == "https://note.com/user/n/n0123456789ab"

MutationBodies ==
    {NotJson,
     JsonBody(TRUE, "array", Absent, Absent, Absent, Absent),
     JsonBody(TRUE, "object", Absent, Absent, Absent, Absent),
     JsonBody(TRUE, "object", "null", Absent, Absent, Absent),
     JsonBody(TRUE, "object", "string", Absent, Absent, Absent),
     JsonBody(TRUE, "object", "array", Absent, Absent, Absent)}
    \cup {JsonBody(TRUE, "object", "object", Absent, Absent, u) :
            u \in {Absent, None, "", NoteUrl}}

ContentTypes ==
    {EmptyDict,
     "content-type" :> ApplicationJson,
     "content-type" :> (ApplicationJson \o <<"; charset=utf-8">>),
     "content-type" :> <<"text/", "html">>}

MutationResponses ==
    {Response(st, EmptyDict, h, b) :
        st \in Statuses, h \in ContentTypes, b \in MutationBodies}

\* The exception resp.json()["data"][member] raises, "" when it raises none.
JsonDataMemberError(j, member) ==
    IF ~j.parses THEN "JSONDecodeError"
    ELSE IF j.top # "object" THEN "TypeError"
    ELSE IF j.data = Absent THEN "KeyError"
    ELSE IF j.data # "object" THEN "TypeError"
    ELSE IF j[member] = Absent THEN "KeyError"
    ELSE ""

\* Mutant of CreateParseError: the members are read with defaults.
CreateParseError_Lenient(j) == ""

\* The exception of note_id = resp.json()["data"]["id"];
\* note_key = resp.json()["data"]["key"]
CreateParseError(j) ==
    IF JsonDataMemberError(j, "id") # "" THEN JsonDataMemberError(j, "id")
    ELSE JsonDataMemberError(j, "key")

\* Mutant of PutReturn: the URL is read and dropped, as "-> None" declares.
PutReturn_None(r) ==
    IF JsonDataMemberError(r.json, "note_url") # ""
    THEN Raise(JsonDataMemberError(r.json, "note_url"), "note_url")
    ELSE Return(None)

\* return put_resp.json()['data']['note_url']
PutReturn(r) ==
    IF JsonDataMemberError(r.json, "note_url") # ""
    THEN Raise(JsonDataMemberError(r.json, "note_url"), "note_url")
    ELSE Return(r.json.note_url)

\* data = {}; try: if content-type starts with application/json:
\*     data = save_resp.json().get("data", {})  except Exception: pass
\* The result is the type of data and, for a dict, its note_url.
DraftData(r) ==
    LET j == r.json
        empty == [type |-> "object", note_url |-> Absent]
    IN  IF ~StartsWith(DictGet(r.headers, "content-type", <<>>), ApplicationJson)
        THEN empty
        ELSE IF ~j.parses THEN empty
        ELSE IF j.top # "object" THEN empty
        ELSE IF j.data = Absent THEN empty
        ELSE [type |-> j.data, note_url |-> j.note_url]

FallbackUrl(key) == <<"https://note.com/notes/", PyStr(key), "?draft=1">>

\* url = data.get("note_url") or f"https://note.com/notes/{note_key}?draft=1"
DraftReturn(r, key) ==
    LET data == DraftData(r)
        got == IF data.note_url = Absent THEN None ELSE data.note_url
    IN  IF data.type # "object" THEN Raise("AttributeError", "get")
        ELSE IF Truthy(got) THEN Return(<<got>>)
        ELSE Return(FallbackUrl(key))


---------------------------------------------------------------------------
(* The tools                                                               *)

Emails == {None, "", "foo@gmail.com"}
Passwords == {None, "", "YOUR_PASSWORD"}
Titles == {"title"}
Hashtags == {[is_none |-> TRUE, items |-> <<>>],
             [is_none |-> FALSE, items |-> <<"#python", "#fastmcp">>]}

\* Mutant of MissingCredential: only a missing parameter is caught, not an
\* empty one.
MissingCredential_NoneOnly(v) == v = None

\* if not email: / if not password:
MissingCredential(v) == ~Truthy(v)

Init ==
    /\ op = Absent /\ title = Absent /\ body = <<>>
    /\ hashtags = [is_none |-> TRUE, items |-> <<>>]
    /\ email = None /\ password = None
    /\ pc = "idle"
    /\ cookies = EmptyDict /\ xsrf_headers = EmptyDict
    /\ note_id = Absent /\ note_key = Absent
    /\ log = <<>> /\ resps = <<>>
    /\ outcome = Running
    /\ invocation = 0

\* The framework calls a tool: the arguments, the query parameters of the
\* request that carries the call, and a client of the invocation's own.
\* Runs the handler up to its first request.
Call(tool, e, p, t, b, h) ==
    /\ pc \in {"idle", "done"}
    /\ invocation < MaxInvocations
    /\ invocation' = invocation + 1
    /\ op' = tool /\ title' = t /\ body' = b /\ hashtags' = h
    /\ email' = e /\ password' = p
    /\ cookies' = EmptyDict /\ xsrf_headers' = EmptyDict
    /\ note_id' = Absent /\ note_key' = Absent
    /\ resps' = <<>>
    /\ IF MissingCredential(e)
       THEN outcome' = MissingParameter("email") /\ log' = <<>> /\ pc' = "done"
       ELSE IF MissingCredential(p)
       THEN outcome' = MissingParameter("password") /\ log' = <<>> /\ pc' = "done"
       ELSE outcome' = Running /\ log' = <<SignInRequest(e, p)>> /\ pc' = "sign_in"

\* The sign-in response: raise_for_status, the two cookies, the create
\* request.
SignedIn(tool, r) ==
    /\ pc = "sign_in" /\ op = tool
    /\ resps' = Append(resps, r)
    /\ cookies' = r.cookies
    /\ LET session_cookie == DictGet(r.cookies, SessionName, None)
           xsrf_cookie == DictGet(r.cookies, XsrfName, None)
       IN  IF RaiseForStatus(r)
           THEN /\ outcome' = HTTPStatusError(r) /\ pc' = "done"
                /\ UNCHANGED <<xsrf_headers, log>>
           ELSE IF MissingSession(session_cookie)
           THEN /\ outcome' = NoSessionCookie /\ pc' = "done"
                /\ UNCHANGED <<xsrf_headers, log>>
           ELSE /\ xsrf_headers' = XsrfHeaders(xsrf_cookie)
                /\ log' = Append(log, CreateRequest(XsrfHeaders(xsrf_cookie)))
                /\ pc' = "create"
                /\ UNCHANGED outcome
    /\ UNCHANGED <<op, title, body, hashtags, email, password, note_id,
                   note_key, invocation>>

\* The mutation request of the tool: put_body and the PUT of
\* post_note_article, draft_payload and the POST of save_note_draft.
MutationRequest(tool, id, key) ==
    IF tool = "post_note_article"
    THEN PutRequest(xsrf_headers, id, key, title, body, hashtags)
    ELSE DraftSaveRequest(xsrf_headers, id, title, body)

\* The create response: raise_for_status, the note's id and key, the
\* mutation request.
Created(tool, r) ==
    /\ pc = "create" /\ op = tool
    /\ resps' = Append(resps, r)
    /\ IF RaiseForStatus(r)
       THEN /\ outcome' = HTTPStatusError(r) /\ pc' = "done"
            /\ UNCHANGED <<note_id, note_key, log>>
       ELSE IF CreateParseError(r.json) # ""
       THEN /\ outcome' = Raise(CreateParseError(r.json), "data")
            /\ pc' = "done"
            /\ UNCHANGED <<note_id, note_key, log>>
       ELSE /\ note_id' = r.json.id /\ note_key' = r.json.key
            /\ log' = Append(log, MutationRequest(tool, r.json.id, r.json.key))
            /\ pc' = "mutate"
            /\ UNCHANGED outcome
    /\ UNCHANGED <<op, title, body, hashtags, email, password, cookies,
                   xsrf_headers, invocation>>

post_note_article ==
    \E e \in Emails, p \in Passwords, t \in Titles, b \in SampleBodies, h \in Hashtags :
        Call("post_note_article", e, p, t, b, h)

post_signed_in == \E r \in SignInResponses : SignedIn("post_note_article", r)

post_created(r) == Created("post_note_article", r)

\* The PUT response: no raise_for_status; the handler returns the response's
\* data.note_url.
post_published ==
    \E r \in MutationResponses :
        /\ pc = "mutate" /\ op = "post_note_article"
        /\ resps' = Append(resps, r)
        /\ outcome' = PutReturn(r)
        /\ pc' = "done"
        /\ UNCHANGED <<op, title, body, hashtags, email, password, cookies,
                       xsrf_headers, note_id, note_key, log, invocation>>

save_note_draft ==
    \E e \in Emails, p \in Passwords, t \in Titles, b \in SampleBodies, h \in Hashtags :
        Call("save_note_draft", e, p, t, b, h)

save_signed_in == \E r \in SignInResponses : SignedIn("save_note_draft", r)

save_created(r) == Created("save_note_draft", r)

\* The draft_save response: raise_for_status, then the URL of the response
\* or the one built from note_key.
save_saved ==
    \E r \in MutationResponses :
        /\ pc = "mutate" /\ op = "save_note_draft"
        /\ resps' = Append(resps, r)
        /\ outcome' = IF RaiseForStatus(r) THEN HTTPStatusError(r)
                      ELSE DraftReturn(r, note_key)
        /\ pc' = "done"
        /\ UNCHANGED <<op, title, body, hashtags, email, password, cookies,
                       xsrf_headers, note_id, note_key, log, invocation>>

Next ==
    \/ post_note_article
    \/ post_signed_in
    \/ \E r \in CreateResponses : post_created(r)
    \/ post_published
    \/ save_note_draft
    \/ save_signed_in
    \/ \E r \in CreateResponses : save_created(r)
    \/ save_saved

Spec == Init /\ [][Next]_vars

---------------------------------------------------------------------------
(* The draft payload over every short body: save_note_draft from the       *)
(* create response on, started where the create request is under way.      *)

CreatedOk == Response(200, EmptyDict, EmptyDict,
                      JsonBody(TRUE, "object", "object", "12345", "abcd1234", Absent))

InitBody ==
    /\ op = "save_note_draft" /\ title = "title" /\ body \in AllBodies
    /\ hashtags = [is_none |-> TRUE, items |-> <<>>]
    /\ email = "foo@gmail.com" /\ password = "YOUR_PASSWORD"
    /\ pc = "create"
    /\ cookies = CookieJar("s3ss10n", "x5rf")
    /\ xsrf_headers = XsrfHeaders("x5rf")
    /\ note_id = Absent /\ note_key = Absent
    /\ log = <<SignInRequest(email, password), CreateRequest(xsrf_headers)>>
    /\ resps = <<Response(200, cookies, EmptyDict, NotJson)>>
    /\ outcome = Running
    /\ invocation = 1

NextBody == save_created(CreatedOk)

SpecBody == InitBody /\ [][NextBody]_vars


---------------------------------------------------------------------------
(* Properties                                                              *)

Kinds == {log[i].kind : i \in 1..Len(log)}

MutationSent == Kinds \cap {"publish", "draft_save"} # {}

\* C1: in an invocation of either tool whose email or password query
\* parameter is missing or empty, the outcome is a ValueError whose message
\* names the missing parameter (email first), and no request was issued.
C1_MissingCredentialFailsBeforeAnyRequest ==
    (op # Absent /\ (email \in {None, ""} \/ password \in {None, ""})) =>
        /\ outcome.kind = "raise"
        /\ outcome.exc = "ValueError"
        /\ outcome.value[1] = "Missing '"
        /\ outcome.value[2] = (IF email \in {None, ""} THEN "email" ELSE "password")
        /\ log = <<>>
        /\ resps = <<>>
        /\ pc = "done"

C1_Witness ==
    /\ op = "save_note_draft" /\ email = "foo@gmail.com" /\ password = ""
    /\ outcome = MissingParameter("password")
    /\ log = <<>>

\* C2: when the sign-in response is not 2xx the invocation ends in an
\* HTTPStatusError with the sign-in request as its only request; and from
\* a state in which the invocation has failed (an exception was raised or
\* the sign-in response was not 2xx), no step of the same invocation issues
\* a request.
C2_FailedStepStopsTheInvocation ==
    /\ []((Len(resps) >= 1 /\ ~IsSuccess(resps[1].status)) =>
            /\ outcome.kind = "raise" /\ outcome.exc = "HTTPStatusError"
            /\ Kinds = {"sign_in"} /\ Len(log) = 1
            /\ pc = "done")
    /\ [][((outcome.kind = "raise"
              \/ (Len(resps) >= 1 /\ ~IsSuccess(resps[1].status)))
            /\ invocation' = invocation) => log' = log]_vars

C2_Witness ==
    /\ op = "post_note_article" /\ Len(resps) = 1 /\ resps[1].status = 500
    /\ outcome.exc = "HTTPStatusError" /\ Len(log) = 1

\* C3: when the sign-in response is 2xx and the client holds no
\* _note_session_v5 cookie, the invocation ends in the RuntimeError and
\* neither the create nor the mutation request was issued.
C3_NoSessionCookieIsRuntimeError ==
    (Len(resps) >= 1 /\ IsSuccess(resps[1].status) /\ SessionName \notin DOMAIN cookies) =>
        /\ outcome = NoSessionCookie
        /\ Kinds = {"sign_in"}
        /\ Len(resps) = 1
        /\ pc = "done"

C3_Witness ==
    /\ op = "save_note_draft" /\ Len(resps) = 1 /\ resps[1].status = 200
    /\ SessionName \notin DOMAIN cookies /\ XsrfName \in DOMAIN cookies
    /\ outcome.exc = "RuntimeError"

\* C4: a mutation request (the PUT of publish, the draft_save POST) is in
\* the log only if this invocation's sign-in response was 2xx and left a
\* session cookie, and its create response was 2xx with a data object
\* holding id and key, which are the id and key the mutation uses.
C4_MutationNeedsSessionAndNote ==
    MutationSent =>
        /\ Len(resps) >= 2 /\ Len(log) = 3
        /\ IsSuccess(resps[1].status)
        /\ cookies = resps[1].cookies
        /\ Truthy(DictGet(cookies, SessionName, None))
        /\ IsSuccess(resps[2].status)
        /\ resps[2].json.parses /\ resps[2].json.data = "object"
        /\ resps[2].json.id # Absent /\ resps[2].json.key # Absent
        /\ note_id = resps[2].json.id /\ note_key = resps[2].json.key
        /\ IF log[3].kind = "publish"
           THEN /\ log[3].url[2] = PyStr(note_id)
                /\ log[3].json.slug = <<"slug-", PyStr(note_key)>>
           ELSE log[3].params["id"] = note_id

C4_Witness ==
    /\ op = "post_note_article" /\ pc = "mutate" /\ MutationSent
    /\ note_id = "12345" /\ note_key = "abcd1234"

\* C5 (its last clause, which the first implies): a publish invocation
\* that got a response that is not 2xx, to its sign-in, create or PUT
\* request, does not complete successfully.
C5_PublishNeverReturnsAfterNon2xx ==
    (op = "post_note_article" /\ pc = "done"
        /\ \E i \in 1..Len(resps) : ~IsSuccess(resps[i].status)) =>
        outcome.kind = "raise"

\* The draft_save response carries no note_url.
NoNoteUrl(r) ==
    \/ ~StartsWith(DictGet(r.headers, "content-type", <<>>), ApplicationJson)
    \/ ~r.json.parses
    \/ r.json.top # "object"
    \/ r.json.data # "object"
    \/ r.json.note_url \in {Absent, None}

\* C6: when the draft_save response is 2xx and its body is not JSON-typed,
\* does not parse or carries no note_url (a missing, null or non-object
\* data included), save_note_draft returns the fallback URL built from this
\* invocation's note_key.
C6_FallbackUrlNeverRaises ==
    (op = "save_note_draft" /\ pc = "done" /\ Len(resps) = 3
        /\ IsSuccess(resps[3].status) /\ NoNoteUrl(resps[3])) =>
        outcome = Return(FallbackUrl(resps[2].json.key))

\* C7 as stated: every request after the sign-in carries an X-XSRF-TOKEN
\* header.
C7_EveryRequestCarriesXsrfHeader ==
    \A i \in 1..Len(log) :
        log[i].kind # "sign_in" => XsrfHeader \in DOMAIN log[i].headers

\* C7 amended: every request after the sign-in carries the XSRF-TOKEN
\* cookie of the sign-in response as its X-XSRF-TOKEN header when that
\* cookie is set and not empty, and no X-XSRF-TOKEN header otherwise.
C7_XsrfHeaderEchoesCookie ==
    \A i \in 1..Len(log) :
        log[i].kind # "sign_in" =>
            LET c == DictGet(resps[1].cookies, XsrfName, None)
            IN  IF c \notin {None, ""}
                THEN DictGet(log[i].headers, XsrfHeader, Absent) = c
                ELSE XsrfHeader \notin DOMAIN log[i].headers

C7_Witness ==
    /\ Len(log) = 3 /\ log[3].kind = "draft_save"
    /\ DictGet(log[2].headers, XsrfHeader, Absent) = "x5rf"
    /\ DictGet(log[3].headers, XsrfHeader, Absent) = "x5rf"

\* C8 as stated: a publish invocation that returns, with a note URL in the
\* PUT response, yields None.
C8_PublishYieldsNone ==
    (op = "post_note_article" /\ outcome.kind = "return"
        /\ resps[3].json.note_url = NoteUrl) => outcome.value = None

\* C8 amended: a publish invocation that returns yields the data.note_url
\* of its PUT response (None only when that member is null), and a
\* save-draft invocation that returns yields a URL: the response's or the
\* fallback.
C8_PublishYieldsNoteUrl ==
    /\ (op = "post_note_article" /\ outcome.kind = "return") =>
            /\ Len(resps) = 3
            /\ resps[3].json.parses /\ resps[3].json.data = "object"
            /\ resps[3].json.note_url # Absent
            /\ outcome.value = resps[3].json.note_url
    /\ (op = "save_note_draft" /\ outcome.kind = "return") =>
            outcome.value \in {<<NoteUrl>>, FallbackUrl(note_key)}

C8_Witness ==
    /\ op = "post_note_article" /\ outcome = Return(NoteUrl)
    /\ resps[3].status = 200

\* The length of the tag-stripped text s with every character reference
\* that html.unescape decodes counted as one character.
RECURSIVE OnePerReference(_, _)
OnePerReference(s, i) ==
    IF i > Len(s) THEN 0
    ELSE IF s[i] = "&" /\ CharrefLen(s, i) > 0
         THEN LET g == SubSeq(s, i + 1, i + CharrefLen(s, i))
                  x == LongestPrefix(g, Len(g) - 1)
                  here == IF g[1] = "#" \/ g \in Html5Names THEN 1
                          ELSE IF x # 0 THEN 1 + Len(g) - x
                          ELSE 1 + Len(g)
              IN  here + OnePerReference(s, i + 1 + CharrefLen(s, i))
         ELSE 1 + OnePerReference(s, i + 1)

DraftSaves == {i \in 1..Len(log) : log[i].kind = "draft_save"}

\* C9 as stated: the draft payload holds the raw body, and its body_length
\* is the length of the tag-stripped body with each entity counted as one
\* character.
C9_EachEntityCountsAsOne ==
    \A i \in DraftSaves :
        /\ log[i].json.body = body
        /\ log[i].json.body_length = OnePerReference(ReSubTags(body), 1)

\* C9 amended: the draft payload holds the raw body, and its body_length is
\* the length of html.unescape applied to the body with every <...>
\* removed (tags first, then references), each reference counting for as
\* many characters as it expands to; "<p>Hello&nbsp;World</p>" gives 11.
C9_BodyLengthOfUnescapedStrippedBody ==
    \A i \in DraftSaves :
        /\ log[i].json.body = body
        /\ log[i].json.body_length = Len(Unescape(ReSubTags(body)))
        /\ (body = HelloBody => Len(body) = 23 /\ log[i].json.body_length = 11)
        /\ (body = EscapedTagBody => log[i].json.body_length = 4)
        /\ (body = FjligBody => log[i].json.body_length = 2)

C9_Witness ==
    /\ pc = "mutate" /\ body = HelloBody
    /\ DraftSaves = {3} /\ log[3].json.body_length = 11
    /\ log[3].json.body = HelloBody

RequestOrder(tool) ==
    IF tool = "post_note_article" THEN <<"sign_in", "create", "publish">>
    ELSE <<"sign_in", "create", "draft_save">>

\* C10: the log of an invocation is a prefix of sign-in, create, mutation
\* (each at most once, in that order, POST or PUT only), every request but
\* the last one was answered 2xx, and an invocation that raised has no
\* request after the failure: a response that is not 2xx, or an exception,
\* is followed by no request.
C10_NoRetryNoCleanup ==
    /\ Len(log) <= 3
    /\ \A i \in 1..Len(log) :
            /\ log[i].kind = RequestOrder(op)[i]
            /\ log[i].method = (IF log[i].kind = "publish" THEN "PUT" ELSE "POST")
    /\ Len(resps) <= Len(log) /\ Len(log) <= Len(resps) + 1
    /\ \A i \in 1..Len(resps) : ~IsSuccess(resps[i].status) => Len(log) = i
    /\ outcome.kind = "raise" => (pc = "done" /\ Len(log) = Len(resps))
    /\ pc = "done" => outcome.kind # "running"

C10_Witness ==
    /\ op = "save_note_draft" /\ Len(resps) = 3 /\ Len(log) = 3
    /\ IsSuccess(resps[2].status) /\ note_key = "abcd1234"
    /\ resps[3].status = 500
    /\ outcome = HTTPStatusError(resps[3])
    /\ pc = "done"

=============================================================================
